---- MODULE Spec2Model ----
(***************************************************************************)
(* Model of the safesign generation-verification loop (RagPipeline.run)    *)
(* and of the rubric-based toxicity scorer (ToxicClauseDetector.detect).   *)
(*                                                                         *)
(* Texts are sequences of string tokens.  Faithfulness scores are records  *)
(* [kind, n]: kind "num" is a number n, kind "nan" is the float NaN that   *)
(* json.loads accepts, kind "str" is any JSON value Python cannot order    *)
(* against an int (a string, null, a list).  Toxicity scores are fixed     *)
(* point numbers in thousandths: 4.0 is 4000, 0.95 is 950.                 *)
(***************************************************************************)
EXTENDS Integers, Sequences, FiniteSets, TLC

VARIABLES
    law_vs,          \* LawContextManager.vectorstore: [loaded, docs]
    prec_vs,         \* PrecedentContextManager.vectorstore: [loaded, docs]
    pc,              \* position of the RagPipeline.run invocation
    law_docs,        \* run: law_docs
    prec_docs,       \* run: prec_docs
    context_text,    \* run: context_text
    current_answer,  \* run: current_answer
    current_score,   \* run: current_score
    reason,          \* run: reason
    retry_count,     \* run: retry_count
    feedback,        \* run: feedback
    calls,           \* log of the external calls of this invocation, in order
    result,          \* the envelope run returned (meaningful when pc = "returned")
    eval_resp,       \* text the evaluator's engine returned in the current attempt
    run_alone,       \* the statutes this run would retrieve with no other invocation
    det_pc,          \* position of the ToxicClauseDetector.detect invocation
    det_laws,        \* _retrieve_context: laws
    det_precs,       \* _retrieve_context: precedents
    det_context,     \* detect: retrieved_context
    det_raw,         \* detect: toxic_metric.score as measured
    det_scale,       \* the convention toxic_metric.score was expressed on
    det_norm,        \* detect: risk_score after the 0-1 correction
    det_result,      \* the assessment detect returned
    det_alone,       \* the statutes this detect would retrieve with no other invocation
    sug_pc,          \* position of the generate_easy_suggestion invocation
    sug_calls,       \* engine calls of that invocation, in order
    sug_text,        \* the text generate_easy_suggestion returned
    mgr              \* the last call made on a manager directly:
                     \* [op, k, docs, raised, initialized]

vars == << law_vs, prec_vs, pc, law_docs, prec_docs, context_text, current_answer,
           current_score, reason, retry_count, feedback, calls, result,
           eval_resp, det_pc, det_laws, det_precs, det_context, det_raw, det_scale,
           det_norm, det_result, sug_pc, sug_calls, sug_text, run_alone, det_alone, mgr >>

runVars == << pc, law_docs, prec_docs, context_text, current_answer,
              current_score, reason, retry_count, feedback, calls, result,
              eval_resp, run_alone >>

detVars == << det_pc, det_laws, det_precs, det_context, det_raw, det_scale, det_norm, det_result,
             sug_pc, sug_calls, sug_text, det_alone >>

(***************************************************************************)
(* Bounds of the model.                                                    *)
(***************************************************************************)
MaxIndexDocs == 3
MaxRespLen == 3
MaxK == 4

(***************************************************************************)
(* Program constants.                                                      *)
(***************************************************************************)
MAX_RETRIES == 2
TARGET_SCORE == 75
RUN_K == 2
FALLBACK_SCORE == 50
DEFAULT_SCORE == 0
NO_CONTEXT_SCORE == 0
DETECT_LAW_K == 2
DETECT_PREC_K == 1
\* Toxicity scores, in thousandths.
ONE == 1000
TOXIC_THRESHOLD == 4000
MAX_RAW == 10000

Min(a, b) == IF a <= b THEN a ELSE b

(***************************************************************************)
(* Scores as Python values.                                                *)
(***************************************************************************)
Num(n) == [kind |-> "num", n |-> n]
NaN == [kind |-> "nan", n |-> 0]
NonNumeric == [kind |-> "str", n |-> 0]

\* Python's a >= b and a < b between a parsed score and an int raise
\* TypeError unless the score is a number.
Comparable(s) == s.kind \in {"num", "nan"}
Ge(s, t) == s.kind = "num" /\ s.n >= t
Lt(s, t) == s.kind = "num" /\ s.n < t

\* f"{current_score}"
ScoreText(s) ==
    CASE s.kind = "num" -> ToString(s.n)
      [] s.kind = "nan" -> "nan"
      [] OTHER -> "high"

(***************************************************************************)
(* Retrieval: LawContextManager / PrecedentContextManager.                 *)
(***************************************************************************)
NoStore == [loaded |-> FALSE, docs |-> <<>>]

LawName(i) == "law" \o ToString(i)
PrecName(i) == "prec" \o ToString(i)

\* A loaded index with the ranking of its n documents for the query.  An
\* index built here holds at least one document; one loaded from the local
\* directory holds whatever was saved there.
LawIndex(n) == [loaded |-> TRUE, docs |-> [i \in 1..n |-> LawName(i)]]
PrecIndex(n) == [loaded |-> TRUE, docs |-> [i \in 1..n |-> PrecName(i)]]

\* What the environment can provide to initialize_database: an index to
\* load or build, or nothing (NoStore).
LawStores == {NoStore} \cup {LawIndex(n) : n \in 0..MaxIndexDocs}
PrecStores == {NoStore} \cup {PrecIndex(n) : n \in 0..MaxIndexDocs}

\* The environment is consulted only while no index is loaded.
Available(vs, stores) == IF vs.loaded THEN {NoStore} ELSE stores

\* Variant: the index is loaded or built again over the one held.
law_initialize_database_reload(vs, avail) ==
    [vs |-> IF avail.loaded THEN avail ELSE vs, raised |-> FALSE, called |-> TRUE]

\* LawContextManager.initialize_database: returns at once when an index is
\* loaded; otherwise loads or builds avail, and leaves None when there is
\* nothing to load and nothing to store.
law_initialize_database(vs, avail) ==
    [vs |-> IF vs.loaded THEN vs ELSE avail, raised |-> FALSE, called |-> TRUE]

\* PrecedentContextManager.initialize_database: returns at once when an
\* index is loaded, loads the local index when there is one, and otherwise
\* reaches line 102, whose names display and max_pages are bound nowhere:
\* NameError.
precedent_initialize_database(vs, avail) ==
    IF vs.loaded THEN [vs |-> vs, raised |-> FALSE, called |-> TRUE]
    ELSE IF avail.loaded THEN [vs |-> avail, raised |-> FALSE, called |-> TRUE]
    ELSE [vs |-> vs, raised |-> TRUE, called |-> TRUE]

\* vectorstore.similarity_search(query, k): the k best ranked documents.
similarity_search(vs, k) == SubSeq(vs.docs, 1, Min(k, Len(vs.docs)))

\* The outcome of the initialization step of a search that found an index
\* loaded: initialize_database is not called.
NotCalled(vs) == [vs |-> vs, raised |-> FALSE, called |-> FALSE]

\* The search after the initialization it may have triggered: the manager's
\* vectorstore, the page contents returned, whether it raised, and whether
\* initialize_database was called.
SearchLoaded(init, k) ==
    IF init.raised
    THEN [vs |-> init.vs, docs |-> <<>>, raised |-> TRUE, initialized |-> init.called]
    ELSE IF ~init.vs.loaded
    THEN [vs |-> init.vs, docs |-> <<>>, raised |-> FALSE, initialized |-> init.called]
    ELSE [vs |-> init.vs, docs |-> similarity_search(init.vs, k), raised |-> FALSE,
          initialized |-> init.called]

\* LawContextManager.search_relevant_laws
search_relevant_laws(vs, avail, k) ==
    SearchLoaded(IF ~vs.loaded THEN law_initialize_database(vs, avail)
                 ELSE NotCalled(vs), k)

\* PrecedentContextManager.search_relevant_precedents
search_relevant_precedents(vs, avail, k) ==
    SearchLoaded(IF ~vs.loaded THEN precedent_initialize_database(vs, avail)
                 ELSE NotCalled(vs), k)

(***************************************************************************)
(* Texts of RagPipeline.                                                   *)
(***************************************************************************)
NO_INFO_ANSWER == << "no related statute or precedent found" >>
LAW_LABEL == "=== [statutes] ==="
PREC_LABEL == "=== [precedents] ==="
WARN_OPEN == "[warning: weak grounding (confidence: "
WARN_CLOSE == "%)]"
DEFAULT_REASON == "cannot evaluate"
EVAL_ERROR == "Evaluation Error"

RECURSIVE Numbered(_, _)
\* "\n".join([f"{i+1}. {txt}" for i, txt in enumerate(docs)]), from item i on
Numbered(docs, i) ==
    IF i > Len(docs) THEN <<>>
    ELSE << ToString(i), ". ", docs[i] >>
         \o (IF i < Len(docs) THEN << "\n" >> ELSE <<>>)
         \o Numbered(docs, i + 1)

\* Variant: both labels are written whether or not the section has items.
_format_context_labels(laws, precedents) ==
    << LAW_LABEL, "\n" >> \o Numbered(laws, 1) \o << "\n\n" >>
    \o << PREC_LABEL, "\n" >> \o Numbered(precedents, 1)

\* RagPipeline._format_context
_format_context(laws, precedents) ==
    (IF laws # <<>> THEN << LAW_LABEL, "\n" >> \o Numbered(laws, 1) \o << "\n\n" >>
     ELSE <<>>)
    \o
    (IF precedents # <<>> THEN << PREC_LABEL, "\n" >> \o Numbered(precedents, 1)
     ELSE <<>>)

\* The prompt _generate_answer sends.
\* Variant: the revision section is never written.
GeneratePrompt_bare(context, fb) ==
    << "system_role", "[reference]" >> \o context \o << "[question]", "query" >>

\* RagPipeline._generate_answer: the prompt.
GeneratePrompt(context, fb) ==
    << "system_role", "[reference]" >> \o context \o << "[question]", "query" >>
    \o (IF fb # <<>> THEN << "[revise]" >> \o fb ELSE <<>>)

\* The prompt _evaluate_faithfulness sends.
EvaluatePrompt(answer, context) ==
    << "fact_checker", "[reference]" >> \o context \o << "[answer]" >> \o answer

\* feedback = f"점수 미달({current_score}점). 이유: {reason}. ..."
FeedbackText(score, why) ==
    << "score short (", ScoreText(score), "). reason: ", why, ". rewrite from the references only" >>

\* f"[주의: 근거 불충분 (신뢰도: {current_score}%)]\n{current_answer}"
WithBanner(score, answer) ==
    << WARN_OPEN, ScoreText(score), WARN_CLOSE, "\n" >> \o answer

(***************************************************************************)
(* The Faithfulness Evaluator's response text and its parsing.             *)
(* A response is a sequence of tokens: "{" and "}", a markdown code fence  *)
(* (with or without its json tag), prose without braces, and member lists  *)
(* ("score": 74, "reason": "...") that are well-formed JSON inside braces.  *)
(***************************************************************************)
LB == "{"
RB == "}"
FENCE == "<fence>"
TXT == "not-json"

\* The member lists, and the record json.loads builds from each.
Members ==
    [ m_score75 |-> [hasScore |-> TRUE, score |-> Num(75), hasReason |-> TRUE, reason |-> "grounded"],
      m_score74 |-> [hasScore |-> TRUE, score |-> Num(74), hasReason |-> TRUE, reason |-> "partly unsupported"],
      m_scoreStr |-> [hasScore |-> TRUE, score |-> NonNumeric, hasReason |-> TRUE, reason |-> "unclear"],
      m_scoreNaN |-> [hasScore |-> TRUE, score |-> NaN, hasReason |-> TRUE, reason |-> "unclear"],
      m_reasonOnly |-> [hasScore |-> FALSE, score |-> Num(0), hasReason |-> TRUE, reason |-> "no score given"] ]

MemberTokens == DOMAIN Members
EmptyObject == [hasScore |-> FALSE, score |-> Num(0), hasReason |-> FALSE, reason |-> ""]

Tokens == {LB, RB, FENCE, TXT} \cup MemberTokens
Responses == UNION {[1..n -> Tokens] : n \in 0..MaxRespLen}

\* str.find(tok): 0-based index of the first occurrence, -1 when absent.
PyFind(s, tok) ==
    IF \E i \in 1..Len(s) : s[i] = tok
    THEN (CHOOSE i \in 1..Len(s) : s[i] = tok /\ \A j \in 1..(i - 1) : s[j] # tok) - 1
    ELSE -1

\* str.rfind(tok): 0-based index of the last occurrence, -1 when absent.
PyRFind(s, tok) ==
    IF \E i \in 1..Len(s) : s[i] = tok
    THEN (CHOOSE i \in 1..Len(s) : s[i] = tok /\ \A j \in (i + 1)..Len(s) : s[j] # tok) - 1
    ELSE -1

\* A slice bound as Python clamps it: negative counts from the end.
PyBound(i, n) == IF i < 0 THEN (IF n + i < 0 THEN 0 ELSE n + i) ELSE Min(i, n)

\* s[a:b]
PySlice(s, a, b) ==
    LET lo == PyBound(a, Len(s))
        hi == PyBound(b, Len(s))
    IN  IF lo >= hi THEN <<>> ELSE SubSeq(s, lo + 1, hi)

\* re.sub(fence markers, '', text).strip()
StripFences(s) == SelectSeq(s, LAMBDA t : t # FENCE)

\* json.loads accepts the text: an object holding one member list, or {}.
JsonValid(s) ==
    \/ s = << LB, RB >>
    \/ Len(s) = 3 /\ s[1] = LB /\ s[2] \in MemberTokens /\ s[3] = RB

\* json.loads(s) for an accepted text.
JsonLoads(s) == IF Len(s) = 3 THEN Members[s[2]] ELSE EmptyObject

FallbackResult ==
    [hasScore |-> TRUE, score |-> Num(FALLBACK_SCORE), hasReason |-> TRUE, reason |-> EVAL_ERROR]

\* Variant: a failure yields an empty record instead of the fallback.
_evaluate_faithfulness_empty(ok, resp) ==
    IF ~ok THEN EmptyObject
    ELSE LET clean_json == StripFences(resp)
             start == PyFind(clean_json, LB)
             end == PyRFind(clean_json, RB) + 1
             body == PySlice(clean_json, start, end)
         IN  IF JsonValid(body) THEN JsonLoads(body) ELSE EmptyObject

\* _evaluate_faithfulness: ok is whether llm.generate returned a response,
\* resp its text.  Every exception ends in the fallback.
_evaluate_faithfulness(ok, resp) ==
    IF ~ok THEN FallbackResult
    ELSE LET clean_json == StripFences(resp)
             start == PyFind(clean_json, LB)
             end == PyRFind(clean_json, RB) + 1
             body == PySlice(clean_json, start, end)
         IN  IF JsonValid(body) THEN JsonLoads(body) ELSE FallbackResult

\* eval_result.get('score', 0) and eval_result.get('reason', '평가 불가')
GetScore(r) == IF r.hasScore THEN r.score ELSE Num(DEFAULT_SCORE)
GetReason(r) == IF r.hasReason THEN r.reason ELSE DEFAULT_REASON

(***************************************************************************)
(* RagPipeline.run                                                         *)
(***************************************************************************)
\* The texts the Answer Generator's engine call can return.
Answers == { << "answer A" >>, << "answer B" >> }

\* One entry of the call log: the operation, the prompt sent, the text
\* returned (for an evaluation, the answer evaluated), the record the
\* evaluator returned with the score and reason run read from it, and
\* whether the engine call succeeded.
Call(op, prompt, text, record, ok) ==
    [op |-> op, prompt |-> prompt, text |-> text, record |-> record,
     score |-> GetScore(record), reason |-> GetReason(record), ok |-> ok]

\* A call that is no evaluation carries no record.
NoRecord == [hasScore |-> TRUE, score |-> Num(0), hasReason |-> TRUE, reason |-> ""]

NoResult == [answer |-> <<>>, sources |-> <<>>, score |-> Num(0)]

\* Variant: the exit taken as soon as one of the two results is empty.
NoContext_either(laws, precedents) == laws = <<>> \/ precedents = <<>>

\* if not law_docs and not prec_docs
NoContext(laws, precedents) == laws = <<>> /\ precedents = <<>>

\* Variant: one attempt more than the budget.
LoopContinues_extra(rc) == rc <= MAX_RETRIES + 1

\* while retry_count <= self.MAX_RETRIES
LoopContinues(rc) == rc <= MAX_RETRIES

\* Variant: the target itself is not accepted.
Accepts_strict(score) == score.kind = "num" /\ score.n > TARGET_SCORE

\* Variant: the loop never breaks on the score.
Accepts_never(score) == FALSE

\* if current_score >= self.TARGET_SCORE: break
Accepts(score) == Ge(score, TARGET_SCORE)

\* Variant: the banner is never added.
FinalAnswer_plain(score, answer) == answer

\* Variant: the banner is added at the target as well.
FinalAnswer_inclusive(score, answer) ==
    IF score.kind = "num" /\ score.n <= TARGET_SCORE
    THEN WithBanner(score, answer) ELSE answer

\* if current_score < self.TARGET_SCORE: prefix the warning banner
FinalAnswer(score, answer) ==
    IF Lt(score, TARGET_SCORE) THEN WithBanner(score, answer) ELSE answer

\* Variant: precedents listed before statutes.
final_sources_swapped(laws, precedents) == precedents \o laws

\* final_sources = law_docs + prec_docs
final_sources(laws, precedents) == laws \o precedents

\* The envelope returned after the loop.
Envelope(score, answer, laws, precedents) ==
    [answer |-> FinalAnswer(score, answer),
     sources |-> final_sources(laws, precedents),
     score |-> score]

\* The envelope returned when nothing was retrieved.
NoContextEnvelope ==
    [answer |-> NO_INFO_ANSWER, sources |-> <<>>, score |-> Num(NO_CONTEXT_SCORE)]

(***************************************************************************)
(* ToxicClauseDetector                                                     *)
(***************************************************************************)
\* Variant: the second band starts where the first one ends.
rubric_overlap ==
    << [low |-> 0, high |-> 2000], [low |-> 2000, high |-> 5000],
       [low |-> 6000, high |-> 8000], [low |-> 9000, high |-> 10000] >>

\* self.rubric: the score_range of each band, lowest band first.
rubric ==
    << [low |-> 0, high |-> 2000], [low |-> 3000, high |-> 5000],
       [low |-> 6000, high |-> 8000], [low |-> 9000, high |-> 10000] >>

NO_LAW_TEXT == "no statute found (judge by general legal knowledge)"
NO_PREC_TEXT == "no precedent found"
CLAUSE == "clause"
METRIC_REASON == "metric reason"

RECURSIVE JoinLines(_, _)
\* "\n".join(docs), from item i on
JoinLines(docs, i) ==
    IF i > Len(docs) THEN <<>>
    ELSE << docs[i] >> \o (IF i < Len(docs) THEN << "\n" >> ELSE <<>>)
         \o JoinLines(docs, i + 1)

\* Variant: an empty result leaves its section empty.
_retrieve_context_bare(laws, precedents) ==
    << LAW_LABEL, "\n" >>
    \o JoinLines(laws, 1)
    \o << "\n\n", PREC_LABEL, "\n" >>
    \o (IF precedents # <<>> THEN << precedents[1] >> ELSE <<>>)

\* The text _retrieve_context builds from the two results.
_retrieve_context(laws, precedents) ==
    << LAW_LABEL, "\n" >>
    \o (IF laws # <<>> THEN JoinLines(laws, 1) ELSE << NO_LAW_TEXT >>)
    \o << "\n\n", PREC_LABEL, "\n" >>
    \o (IF precedents # <<>> THEN << precedents[1] >> ELSE << NO_PREC_TEXT >>)

\* The scores toxic_metric.score can hold: the 0-1 convention at a
\* resolution of 0.001, the 0-10 convention at a resolution of 0.01.
RawScores == (0..ONE) \cup {x \in ONE..MAX_RAW : x % 10 = 0}

\* The conventions a measured score can be on: "unit" is 0-1, "ten" is 0-10.
Scales(raw) ==
    (IF raw <= ONE THEN {"unit"} ELSE {}) \cup (IF raw % 10 = 0 THEN {"ten"} ELSE {})

\* if risk_score <= 1.0: risk_score *= 10
Normalize(raw) == IF raw <= ONE THEN raw * 10 ELSE raw

\* Variant: the threshold itself is not toxic.
IsToxic_strict(risk_score) == risk_score > TOXIC_THRESHOLD

\* is_toxic = risk_score >= 4.0
IsToxic(risk_score) == risk_score >= TOXIC_THRESHOLD

\* Variant: the second decimal is cut off.
Round1_cut(x) == {(x \div 100) * 100}

\* round(risk_score, 1): the nearest tenth; a decimal tie goes to either
\* neighbour, as the binary value of the float decides.
Round1(x) ==
    LET lo == (x \div 100) * 100
        rem == x % 100
    IN  IF rem < 50 THEN {lo}
        ELSE IF rem > 50 THEN {lo + 100}
        ELSE {lo, lo + 100}

SAFE_MESSAGE == << "safe clause" >>
Suggestions == { << "suggestion A" >>, << "suggestion B" >> }

\* The prompt of generate_easy_suggestion: the clause, the reason and the
\* context of the assessment.
SuggestPrompt(detection_result) ==
    << "legal_advisor", "[clause]", detection_result.clause,
       "[reason]", detection_result.reason, "[reference]" >>
    \o detection_result.context_used

\* Variant: every clause is sent to the engine.
NeedsNoSuggestion_never(detection_result) == FALSE

\* if not detection_result['is_toxic']
NeedsNoSuggestion(detection_result) == ~detection_result.is_toxic

NoAssessment ==
    [clause |-> "", is_toxic |-> FALSE, risk_score |-> 0, reason |-> "", context_used |-> <<>>]

NoCall == [op |-> "none", k |-> 0, docs |-> <<>>, raised |-> FALSE, initialized |-> FALSE]

\* The locals of invocations not yet made.
InitLocals ==
    /\ pc = "idle"
    /\ law_docs = <<>>
    /\ prec_docs = <<>>
    /\ context_text = <<>>
    /\ current_answer = <<>>
    /\ current_score = Num(0)
    /\ reason = ""
    /\ retry_count = 0
    /\ feedback = <<>>
    /\ calls = <<>>
    /\ result = NoResult
    /\ eval_resp = <<>>
    /\ run_alone = <<>>
    /\ det_pc = "idle"
    /\ det_laws = <<>>
    /\ det_precs = <<>>
    /\ det_context = <<>>
    /\ det_raw = 0
    /\ det_scale = "ten"
    /\ det_norm = 0
    /\ det_result = NoAssessment
    /\ sug_pc = "idle"
    /\ sug_calls = <<>>
    /\ sug_text = <<>>
    /\ det_alone = <<>>
    /\ mgr = NoCall

\* After construction: ToxicClauseDetector.__init__ has initialized both
\* managers, and the precedent manager's initialization returns only with
\* an index loaded.
Init ==
    /\ law_vs \in LawStores
    /\ prec_vs \in PrecStores \ {NoStore}
    /\ InitLocals

\* run, lines 42-58, given the outcomes l and p of the two searches: the
\* empty-context exit, the context block and the loop's initial state.
RunAfterRetrieval(l, p) ==
    LET log == << Call("search_laws", <<>>, l.docs, NoRecord, TRUE),
                  Call("search_precedents", <<>>, p.docs, NoRecord, ~p.raised) >>
    IN  /\ law_vs' = l.vs
        /\ prec_vs' = p.vs
        /\ law_docs' = l.docs
        /\ prec_docs' = p.docs
        /\ calls' = log
        /\ current_answer' = <<>>
        /\ current_score' = Num(0)
        /\ reason' = ""
        /\ retry_count' = 0
        /\ feedback' = <<>>
        /\ eval_resp' = <<>>
        /\ IF p.raised
           THEN /\ pc' = "raised"
                /\ context_text' = <<>>
                /\ result' = NoResult
           ELSE IF NoContext(l.docs, p.docs)
           THEN /\ pc' = "returned"
                /\ context_text' = <<>>
                /\ result' = NoContextEnvelope
           ELSE /\ pc' = "generate"
                /\ context_text' = _format_context(l.docs, p.docs)
                /\ result' = NoResult

\* run, lines 41-58: both retrievals and what follows them.
RunRetrieve ==
    /\ pc \in {"idle", "returned", "raised"}
    /\ \E availLaw \in Available(law_vs, LawStores),
          availPrec \in Available(prec_vs, PrecStores) :
         LET l == search_relevant_laws(law_vs, availLaw, RUN_K)
             p == search_relevant_precedents(prec_vs, availPrec, RUN_K)
         IN  RunAfterRetrieval(l, p) /\ run_alone' = l.docs
    /\ UNCHANGED << detVars, mgr >>

\* _generate_answer fails: the exception leaves run.
GenerateFails ==
    /\ pc = "generate"
    /\ calls' = Append(calls, Call("generate", GeneratePrompt(context_text, feedback),
                                   <<>>, NoRecord, FALSE))
    /\ pc' = "raised"
    /\ UNCHANGED << law_vs, prec_vs, law_docs, prec_docs, context_text, current_answer,
                    current_score, reason, retry_count, feedback, result, eval_resp,
                    run_alone >>
    /\ UNCHANGED << detVars, mgr >>

\* _generate_answer returns response.text, drawn from texts.
GenerateOver(texts) ==
    /\ pc = "generate"
    /\ \E text \in texts :
         /\ current_answer' = text
         /\ calls' = Append(calls, Call("generate", GeneratePrompt(context_text, feedback),
                                        text, NoRecord, TRUE))
    /\ pc' = "evaluate"
    /\ eval_resp' = <<>>
    /\ UNCHANGED << law_vs, prec_vs, law_docs, prec_docs, context_text,
                    current_score, reason, retry_count, feedback, result,
                    run_alone >>
    /\ UNCHANGED << detVars, mgr >>

Generate == GenerateOver(Answers)

\* Lines 67-88 for one evaluation outcome: the score and reason are read,
\* the loop accepts, retries or runs out, and the envelope is built.
AfterEvaluate(eval_result, ok) ==
    LET score == GetScore(eval_result)
        why == GetReason(eval_result)
        rc == retry_count + 1
    IN  /\ calls' = Append(calls, Call("evaluate", EvaluatePrompt(current_answer, context_text),
                                       current_answer, eval_result, ok))
        /\ current_score' = score
        /\ reason' = why
        /\ IF ~Comparable(score)
           THEN \* TypeError at the comparison with TARGET_SCORE
                /\ pc' = "raised"
                /\ UNCHANGED << current_answer, retry_count, feedback, result >>
           ELSE IF Accepts(score)
           THEN /\ pc' = "returned"
                /\ current_answer' = FinalAnswer(score, current_answer)
                /\ result' = Envelope(score, current_answer, law_docs, prec_docs)
                /\ UNCHANGED << retry_count, feedback >>
           ELSE /\ feedback' = FeedbackText(score, why)
                /\ retry_count' = rc
                /\ IF LoopContinues(rc)
                   THEN /\ pc' = "generate"
                        /\ UNCHANGED << current_answer, result >>
                   ELSE /\ pc' = "returned"
                        /\ current_answer' = FinalAnswer(score, current_answer)
                        /\ result' = Envelope(score, current_answer, law_docs, prec_docs)

\* _evaluate_faithfulness when the engine call (or response.text) fails.
EvaluateEngineFails ==
    /\ pc = "evaluate"
    /\ eval_resp' = <<>>
    /\ AfterEvaluate(_evaluate_faithfulness(FALSE, <<>>), FALSE)
    /\ UNCHANGED << law_vs, prec_vs, law_docs, prec_docs, context_text, run_alone >>
    /\ UNCHANGED << detVars, mgr >>

\* _evaluate_faithfulness on a response text drawn from texts.
EvaluateOver(texts) ==
    /\ pc = "evaluate"
    /\ \E resp \in texts :
         /\ eval_resp' = resp
         /\ AfterEvaluate(_evaluate_faithfulness(TRUE, resp), TRUE)
    /\ UNCHANGED << law_vs, prec_vs, law_docs, prec_docs, context_text, run_alone >>
    /\ UNCHANGED << detVars, mgr >>

\* Response texts covering each path of the parser: accepted plain, fenced
\* and wrapped in prose; no braces; unbalanced and reversed braces; a
\* non-numeric score, NaN, a missing score, the empty object.
SampleResponses ==
    { << LB, "m_score75", RB >>,
      << FENCE, LB, "m_score75", RB, FENCE >>,
      << LB, "m_score74", RB >>,
      << TXT, LB, "m_score74", RB, TXT >>,
      << TXT >>,
      << LB, "m_score74" >>,
      << RB, "m_score75", LB >>,
      << LB, "m_scoreStr", RB >>,
      << LB, "m_scoreNaN", RB >>,
      << LB, "m_reasonOnly", RB >>,
      << LB, RB >> }

Evaluate == EvaluateOver(SampleResponses)

\* _retrieve_context given the outcomes l and p of the two searches.
DetectAfterRetrieval(l, p) ==
    /\ law_vs' = l.vs
    /\ prec_vs' = p.vs
    /\ det_laws' = l.docs
    /\ det_precs' = p.docs
    /\ IF p.raised
       THEN det_pc' = "raised" /\ det_context' = <<>>
       ELSE det_pc' = "measure" /\ det_context' = _retrieve_context(l.docs, p.docs)
    /\ det_raw' = 0
    /\ det_scale' = "ten"
    /\ det_norm' = 0
    /\ det_result' = NoAssessment
    /\ sug_pc' = "idle"
    /\ sug_calls' = <<>>
    /\ sug_text' = <<>>

\* detect, line 95: _retrieve_context.
DetectRetrieve ==
    /\ det_pc \in {"idle", "returned", "raised"}
    /\ \E availLaw \in Available(law_vs, LawStores),
          availPrec \in Available(prec_vs, PrecStores) :
         LET l == search_relevant_laws(law_vs, availLaw, DETECT_LAW_K)
             p == search_relevant_precedents(prec_vs, availPrec, DETECT_PREC_K)
         IN  DetectAfterRetrieval(l, p) /\ det_alone' = l.docs
    /\ UNCHANGED << runVars, mgr >>

\* detect, lines 114-136: the metric is measured, the score corrected and
\* compared, and the assessment returned.
DetectMeasureOver(scores) ==
    /\ det_pc = "measure"
    /\ \E raw \in scores :
         LET risk_score == Normalize(raw)
         IN  /\ det_raw' = raw
             /\ det_scale' \in Scales(raw)
             /\ det_norm' = risk_score
             /\ \E rounded \in Round1(risk_score) :
                  det_result' = [clause |-> CLAUSE,
                                 is_toxic |-> IsToxic(risk_score),
                                 risk_score |-> rounded,
                                 reason |-> METRIC_REASON,
                                 context_used |-> det_context]
    /\ det_pc' = "returned"
    /\ UNCHANGED << law_vs, prec_vs, det_laws, det_precs, det_context,
                    sug_pc, sug_calls, sug_text, det_alone >>
    /\ UNCHANGED << runVars, mgr >>

DetectMeasure == DetectMeasureOver(RawScores)

\* generate_easy_suggestion on the assessment detect returned: the fixed
\* message for a safe clause, otherwise one engine call whose text is
\* returned.
Suggest ==
    /\ det_pc = "returned"
    /\ IF NeedsNoSuggestion(det_result)
       THEN /\ sug_calls' = <<>>
            /\ sug_text' = SAFE_MESSAGE
       ELSE \E text \in Suggestions :
              /\ sug_calls' = << Call("suggest", SuggestPrompt(det_result), text,
                                      NoRecord, TRUE) >>
              /\ sug_text' = text
    /\ sug_pc' = "returned"
    /\ UNCHANGED << law_vs, prec_vs, det_pc, det_laws, det_precs, det_context,
                    det_raw, det_scale, det_norm, det_result, det_alone >>
    /\ UNCHANGED << runVars, mgr >>

\* generate_easy_suggestion when the engine call (or response.text) fails:
\* the exception leaves the function.
SuggestFails ==
    /\ det_pc = "returned"
    /\ ~NeedsNoSuggestion(det_result)
    /\ sug_calls' = << Call("suggest", SuggestPrompt(det_result), <<>>, NoRecord, FALSE) >>
    /\ sug_text' = <<>>
    /\ sug_pc' = "raised"
    /\ UNCHANGED << law_vs, prec_vs, det_pc, det_laws, det_precs, det_context,
                    det_raw, det_scale, det_norm, det_result, det_alone >>
    /\ UNCHANGED << runVars, mgr >>

Next == RunRetrieve \/ GenerateFails \/ Generate \/ EvaluateEngineFails \/ Evaluate

Spec == Init /\ [][Next]_vars

(***************************************************************************)
(* The evaluator over every response text of at most MaxRespLen tokens,    *)
(* with both indexes loaded at construction and one generated text.        *)
(***************************************************************************)
InitEval ==
    /\ Init
    /\ law_vs = LawIndex(1)
    /\ prec_vs = PrecIndex(1)

GenerateOne == GenerateOver({ << "answer A" >> })

EvaluateAny == EvaluateOver(Responses)

NextEval == RunRetrieve \/ GenerateFails \/ GenerateOne \/ EvaluateEngineFails \/ EvaluateAny

SpecEval == InitEval /\ [][NextEval]_vars

(***************************************************************************)
(* The toxicity scorer on its own.                                         *)
(***************************************************************************)
NextDetect == DetectRetrieve \/ DetectMeasure \/ Suggest \/ SuggestFails

SpecDetect == Init /\ [][NextDetect]_vars

(***************************************************************************)
(* One run and one detect interleaved on the same managers, the statute    *)
(* search of each taken step by step: the test of self.vectorstore, the    *)
(* load or build of initialize_database, the search.                       *)
(***************************************************************************)
\* The statutes a search on its own returns from what it found loaded or,
\* with nothing loaded, from what its own initialization obtained.
AloneDocs(vs, k) == IF vs.loaded THEN similarity_search(vs, k) ELSE <<>>

\* initialize_database past its test of self.vectorstore: the index
\* obtained is assigned; with nothing to load and nothing to store the
\* attribute is left as it is.
law_build(vs, avail) == IF avail.loaded THEN avail ELSE vs

\* run, line 42: search_relevant_laws tests self.vectorstore (and
\* initialize_database tests it again on entry).
RunEnter ==
    /\ pc \in {"idle", "returned", "raised"}
    /\ pc' = IF law_vs.loaded THEN "law_search" ELSE "law_init"
    /\ run_alone' = AloneDocs(law_vs, RUN_K)
    /\ UNCHANGED << law_vs, prec_vs, law_docs, prec_docs, context_text, current_answer,
                    current_score, reason, retry_count, feedback, calls, result,
                    eval_resp >>
    /\ UNCHANGED << detVars, mgr >>

\* run, line 42: initialize_database loads or builds, and assigns.
RunLawBuilt ==
    /\ pc = "law_init"
    /\ \E avail \in LawStores :
         /\ law_vs' = law_build(law_vs, avail)
         /\ run_alone' = AloneDocs(avail, RUN_K)
    /\ pc' = "law_search"
    /\ UNCHANGED << prec_vs, law_docs, prec_docs, context_text, current_answer,
                    current_score, reason, retry_count, feedback, calls, result,
                    eval_resp >>
    /\ UNCHANGED << detVars, mgr >>

\* run, lines 42-58: the statute search on the index now held, the
\* precedent search and what follows them.
RunSearch ==
    /\ pc = "law_search"
    /\ \E availPrec \in Available(prec_vs, PrecStores) :
         RunAfterRetrieval(SearchLoaded(NotCalled(law_vs), RUN_K),
                           search_relevant_precedents(prec_vs, availPrec, RUN_K))
    /\ UNCHANGED run_alone
    /\ UNCHANGED << detVars, mgr >>

\* detect, line 95: the same three steps within _retrieve_context.
DetectEnter ==
    /\ det_pc \in {"idle", "returned", "raised"}
    /\ det_pc' = IF law_vs.loaded THEN "law_search" ELSE "law_init"
    /\ det_alone' = AloneDocs(law_vs, DETECT_LAW_K)
    /\ UNCHANGED << law_vs, prec_vs, det_laws, det_precs, det_context, det_raw,
                    det_scale, det_norm, det_result, sug_pc, sug_calls, sug_text >>
    /\ UNCHANGED << runVars, mgr >>

DetectLawBuilt ==
    /\ det_pc = "law_init"
    /\ \E avail \in LawStores :
         /\ law_vs' = law_build(law_vs, avail)
         /\ det_alone' = AloneDocs(avail, DETECT_LAW_K)
    /\ det_pc' = "law_search"
    /\ UNCHANGED << prec_vs, det_laws, det_precs, det_context, det_raw,
                    det_scale, det_norm, det_result, sug_pc, sug_calls, sug_text >>
    /\ UNCHANGED << runVars, mgr >>

DetectSearch ==
    /\ det_pc = "law_search"
    /\ \E availPrec \in Available(prec_vs, PrecStores) :
         DetectAfterRetrieval(SearchLoaded(NotCalled(law_vs), DETECT_LAW_K),
                              search_relevant_precedents(prec_vs, availPrec, DETECT_PREC_K))
    /\ UNCHANGED det_alone
    /\ UNCHANGED << runVars, mgr >>

EvaluateTwo == EvaluateOver({ << LB, "m_score75", RB >>, << LB, "m_score74", RB >> })

DetectMeasureTwo == DetectMeasureOver({ONE, TOXIC_THRESHOLD})

NextConc ==
    \/ RunEnter \/ RunLawBuilt \/ RunSearch
    \/ GenerateFails \/ GenerateOne \/ EvaluateEngineFails \/ EvaluateTwo
    \/ DetectEnter \/ DetectLawBuilt \/ DetectSearch \/ DetectMeasureTwo

SpecConc == Init /\ [][NextConc]_vars

(***************************************************************************)
(* The two managers on their own, from their construction on.              *)
(***************************************************************************)
\* LawContextManager.__init__ and PrecedentContextManager.__init__:
\* self.vectorstore = None.
InitManagers ==
    /\ law_vs = NoStore
    /\ prec_vs = NoStore
    /\ InitLocals

\* LawContextManager.initialize_database()
LawInitialize ==
    /\ \E avail \in LawStores :
         LET r == law_initialize_database(law_vs, avail)
         IN  /\ law_vs' = r.vs
             /\ mgr' = [op |-> "init_laws", k |-> 0, docs |-> <<>>, raised |-> r.raised,
                        initialized |-> r.called]
    /\ UNCHANGED << prec_vs, runVars, detVars >>

\* LawContextManager.search_relevant_laws(query, k)
LawSearch ==
    /\ \E k \in 1..MaxK, avail \in LawStores :
         LET r == search_relevant_laws(law_vs, avail, k)
         IN  /\ law_vs' = r.vs
             /\ mgr' = [op |-> "search_laws", k |-> k, docs |-> r.docs, raised |-> r.raised,
                        initialized |-> r.initialized]
    /\ UNCHANGED << prec_vs, runVars, detVars >>

\* PrecedentContextManager.initialize_database()
PrecInitialize ==
    /\ \E avail \in PrecStores :
         LET r == precedent_initialize_database(prec_vs, avail)
         IN  /\ prec_vs' = r.vs
             /\ mgr' = [op |-> "init_precedents", k |-> 0, docs |-> <<>>, raised |-> r.raised,
                        initialized |-> r.called]
    /\ UNCHANGED << law_vs, runVars, detVars >>

\* PrecedentContextManager.search_relevant_precedents(query, k)
PrecSearch ==
    /\ \E k \in 1..MaxK, avail \in PrecStores :
         LET r == search_relevant_precedents(prec_vs, avail, k)
         IN  /\ prec_vs' = r.vs
             /\ mgr' = [op |-> "search_precedents", k |-> k, docs |-> r.docs,
                        raised |-> r.raised, initialized |-> r.initialized]
    /\ UNCHANGED << law_vs, runVars, detVars >>

NextManagers == LawInitialize \/ LawSearch \/ PrecInitialize \/ PrecSearch

SpecManagers == InitManagers /\ [][NextManagers]_vars

(***************************************************************************)
(* Properties.                                                             *)
(***************************************************************************)
CallsOf(op) == {i \in DOMAIN calls : calls[i].op = op}
GenCalls == Cardinality(CallsOf("generate"))
EvalCalls == Cardinality(CallsOf("evaluate"))
GenReturned == Cardinality({i \in CallsOf("generate") : calls[i].ok})
Retrieved == Len(calls) >= 2
Ended == pc \in {"returned", "raised"}
LastCall == calls[Len(calls)]
LastIsEvaluate == Len(calls) > 0 /\ LastCall.op = "evaluate"
Below75(score) == score.kind = "num" /\ score.n < 75
AtLeast75(score) == score.kind = "num" /\ score.n >= 75

\* C1: when both retrievals return nothing, run returns score 0, the fixed
\* "no information" answer and no sources, having made no generation and no
\* evaluation call; when one of them returns something the exit is not
\* taken: run goes on to a generation call.
C1_NoContextExit ==
    Retrieved =>
      /\ (calls[1].text = <<>> /\ calls[2].text = <<>>) =>
            /\ pc = "returned"
            /\ result = [answer |-> << "no related statute or precedent found" >>,
                         sources |-> <<>>, score |-> Num(0)]
            /\ GenCalls = 0
            /\ EvalCalls = 0
      /\ (calls[1].text # <<>> \/ calls[2].text # <<>>) =>
            /\ pc = "generate" \/ GenCalls >= 1
            /\ pc = "returned" => (result.sources # <<>> /\ result.answer # NO_INFO_ANSWER)

C1_Witness ==
    /\ pc = "returned"
    /\ Len(calls) = 2
    /\ calls[1].text = <<>>
    /\ calls[2].text = <<>>
    /\ result.score = Num(0)

\* C2 as stated: at most MAX_RETRIES + 1 = 3 generation calls, and an
\* invocation that has ended made as many evaluation calls as generation calls.
C2_Original ==
    /\ GenCalls <= 3
    /\ Ended => EvalCalls = GenCalls

\* C2 (amended): at most 3 generation calls whatever the scores; an
\* invocation that has ended made one evaluation call for each generation
\* call that returned a text, so as many evaluation as generation calls
\* unless its last generation call failed.
C2_CallBudget ==
    /\ GenCalls <= 3
    /\ EvalCalls <= GenCalls
    /\ Ended => EvalCalls = GenReturned
    /\ (Ended /\ (Len(calls) = 2 \/ LastCall.op # "generate")) => EvalCalls = GenCalls
    /\ pc = "generate" => GenCalls <= 2

C2_Witness ==
    /\ pc = "raised"
    /\ GenCalls = 3
    /\ EvalCalls = 2
    /\ ~LastCall.ok
    /\ \A i \in CallsOf("evaluate") : calls[i].score = Num(0)

\* C3: the loop accepts at the first attempt whose score is >= 75 (75
\* included): that evaluation is the last call, the score returned is its
\* score and the answer returned is the text generated just before it,
\* without banner; a first attempt scoring >= 75 means exactly one
\* generation and one evaluation call.
C3_AcceptAtTarget ==
    \A i \in CallsOf("evaluate") :
      AtLeast75(calls[i].score) =>
        /\ i = Len(calls)
        /\ pc = "returned"
        /\ result.score = calls[i].score
        /\ calls[i - 1].op = "generate"
        /\ result.answer = calls[i - 1].text
        /\ result.answer \in Answers
        /\ i = 4 => (GenCalls = 1 /\ EvalCalls = 1)

C3_Witness ==
    /\ pc = "returned"
    /\ Len(calls) = 4
    /\ calls[4].score = Num(75)
    /\ result.answer = << "answer A" >>

\* C4: when all three attempts score below 75, run returns the text of the
\* last attempt prefixed with the banner that shows the last attempt's
\* score, and returns the last attempt's score.
C4_ExhaustedBanner ==
    (Ended /\ GenCalls >= 1 /\ LastIsEvaluate
       /\ \A i \in CallsOf("evaluate") : Below75(calls[i].score)) =>
      /\ pc = "returned"
      /\ EvalCalls = 3
      /\ result.score = LastCall.score
      /\ result.answer = << "[warning: weak grounding (confidence: ",
                            ToString(LastCall.score.n), "%)]", "\n" >>
                         \o calls[Len(calls) - 1].text

C4_Witness ==
    /\ pc = "returned"
    /\ EvalCalls = 3
    /\ calls[4].score = Num(74)
    /\ calls[3].text = << "answer A" >>
    /\ LastCall.score = Num(50)
    /\ result.answer[2] = "50"
    /\ result.answer[5] = "answer B"

\* C9: a result returned after at least one generation attempt carries the
\* statutes retrieved followed by the precedents retrieved, in retrieval
\* order, and the score of the final attempt.
C9_SourcesAndScore ==
    (pc = "returned" /\ GenCalls >= 1) =>
      /\ result.sources = calls[1].text \o calls[2].text
      /\ result.sources # <<>>
      /\ LastIsEvaluate
      /\ result.score = LastCall.score

C9_Witness ==
    /\ pc = "returned"
    /\ EvalCalls = 3
    /\ result.sources = << "law1", "law2", "prec1", "prec2" >>
    /\ result.score = Num(74)

\* C6 as stated: whatever the evaluator's response, a record whose score is
\* not a number included, the score the loop reads after an evaluation is
\* one it can compare with TARGET_SCORE, and run does not raise there.
C6_AlwaysNumericScore ==
    LastIsEvaluate =>
      /\ LastCall.score.kind # "str"
      /\ pc # "raised"

\* C10 as stated: run raises exactly when a generation call failed, with no
\* call after it and no envelope; in every other case it returns.
C10_OnlyGenerationRaises ==
    /\ pc = "raised" => (LastCall.op = "generate" /\ ~LastCall.ok)
    /\ \A i \in CallsOf("generate") :
         ~calls[i].ok => (i = Len(calls) /\ pc = "raised" /\ result = NoResult)

(***************************************************************************)
(* Properties of the evaluator's parsing (SpecEval).                       *)
(***************************************************************************)
Count(s, tok) == Cardinality({i \in DOMAIN s : s[i] = tok})
Unfenced(s) == SelectSeq(s, LAMBDA t : t # "<fence>")

\* The text from the first "{" to the last "}" is a well-formed record.
SpanIsRecord(resp) ==
    LET c == Unfenced(resp)
    IN  \E i, j \in DOMAIN c :
          /\ c[i] = "{" /\ \A k \in 1..(i - 1) : c[k] # "{"
          /\ c[j] = "}" /\ \A k \in (j + 1)..Len(c) : c[k] # "}"
          /\ \/ j = i + 1
             \/ j = i + 2 /\ c[i + 1] \in MemberTokens

Fallback50 ==
    [hasScore |-> TRUE, score |-> Num(50), hasReason |-> TRUE, reason |-> "Evaluation Error"]

\* The attempt just evaluated was treated as below target.
TreatedBelowTarget ==
    /\ current_score = Num(50)
    /\ retry_count = EvalCalls
    /\ feedback = << "score short (", "50", "). reason: ", "Evaluation Error",
                     ". rewrite from the references only" >>
    /\ IF EvalCalls <= 2 THEN pc = "generate"
       ELSE pc = "returned" /\ result.score = Num(50) /\ result.answer[2] = "50"

\* C5 as stated: a response that is the literal not-json, has no braces or
\* has unbalanced braces makes the evaluator return the fallback.
C5_Original ==
    (LastIsEvaluate /\ LastCall.ok
       /\ \/ eval_resp = << "not-json" >>
          \/ Count(eval_resp, "{") + Count(eval_resp, "}") = 0
          \/ Count(eval_resp, "{") # Count(eval_resp, "}")) =>
      LastCall.record = Fallback50

\* C5 (amended): when the engine call fails, or the response text between
\* its first "{" and its last "}" (fences removed) is not a well-formed
\* record (the literal not-json, no braces, a missing opening or closing
\* brace), the evaluator returns exactly {50, "Evaluation Error"}, nothing
\* is raised, and the loop treats the attempt as below target.
C5_FallbackOnFailure ==
    LastIsEvaluate =>
      /\ (~LastCall.ok \/ ~SpanIsRecord(eval_resp)) =>
            /\ LastCall.record = Fallback50
            /\ pc # "raised"
            /\ TreatedBelowTarget
      /\ (LastCall.ok /\ \/ eval_resp = << "not-json" >>
                         \/ Count(eval_resp, "{") = 0
                         \/ Count(eval_resp, "}") = 0) =>
            LastCall.record = Fallback50

C5_Witness ==
    /\ LastIsEvaluate
    /\ LastCall.ok
    /\ eval_resp = << "{", "m_score75" >>
    /\ LastCall.record = Fallback50
    /\ pc = "generate"
    /\ retry_count = 1

(***************************************************************************)
(* Properties of the toxicity scorer (SpecDetect).                         *)
(***************************************************************************)
\* C7 as stated: the correction is idempotent on 0-10, and a score already
\* on the 0-10 scale comes back unchanged.
C7_Idempotent ==
    det_pc = "returned" =>
      /\ Normalize(det_norm) = det_norm
      /\ (det_raw \in {n * 1000 : n \in 0..10}) => det_norm = det_raw

\* C8: is_toxic is true exactly when the corrected score is >= 4.0, the
\* comparison coming after the correction: 4.0 is toxic, 3.9 is not, a raw
\* 0.95 (9.5) and a raw 0.4 (4.0) are toxic.
C8_ToxicIffAtLeast4 ==
    det_pc = "returned" =>
      /\ det_norm = (IF det_raw <= 1000 THEN det_raw * 10 ELSE det_raw)
      /\ det_result.is_toxic <=> det_norm >= 4000
      /\ det_raw = 4000 => det_result.is_toxic
      /\ det_raw = 3900 => ~det_result.is_toxic
      /\ det_raw = 950 => (det_norm = 9500 /\ det_result.is_toxic)
      /\ det_raw = 400 => det_result.is_toxic

C8_Witness ==
    /\ det_pc = "returned"
    /\ det_raw = 950
    /\ det_norm = 9500
    /\ det_result.is_toxic

\* C11: for a clause assessed as not toxic, generate_easy_suggestion calls
\* the engine zero times and returns the fixed safe-clause message; for a
\* toxic one it calls the engine exactly once, never again, and what it
\* returns is that call's text unchanged.
C11_SuggestionCalls ==
    sug_pc # "idle" =>
        IF ~det_result.is_toxic
        THEN sug_calls = <<>> /\ sug_text = SAFE_MESSAGE /\ sug_pc = "returned"
        ELSE /\ Len(sug_calls) = 1
             /\ sug_calls[1].op = "suggest"
             /\ sug_pc = "returned" =>
                    sug_calls[1].ok /\ sug_text = sug_calls[1].text /\ sug_text # SAFE_MESSAGE
             /\ sug_pc = "raised" => ~sug_calls[1].ok

C11_Witness ==
    /\ sug_pc = "returned"
    /\ det_result.is_toxic
    /\ Len(sug_calls) = 1
    /\ sug_text = << "suggestion B" >>


Range(s) == {s[i] : i \in DOMAIN s}
Formatted == pc = "generate" \/ GenCalls > 0
\* Length of a section of n snippets: label, newline, three tokens per
\* item, a newline between items.
SectionLen(n) == IF n = 0 THEN 0 ELSE 4 * n + 1
\* The statute section is followed by a blank line.
LawSectionLen == IF law_docs = <<>> THEN 0 ELSE SectionLen(Len(law_docs)) + 1

\* C12: the context block holds the statute section, then the precedent
\* section; a section with snippets starts with its label and lists the
\* snippets numbered from 1 in retrieval order; a section without
\* snippets is left out, label included, so a label is in the block
\* exactly when its section has a snippet.
C12_FormatContext ==
    Formatted =>
        /\ (LAW_LABEL \in Range(context_text)) <=> (law_docs # <<>>)
        /\ (PREC_LABEL \in Range(context_text)) <=> (prec_docs # <<>>)
        /\ Len(context_text) = LawSectionLen + SectionLen(Len(prec_docs))
        /\ law_docs # <<>> =>
              /\ context_text[1] = LAW_LABEL
              /\ \A i \in 1..Len(law_docs) :
                    /\ context_text[4 * i - 1] = ToString(i)
                    /\ context_text[4 * i + 1] = law_docs[i]
        /\ prec_docs # <<>> =>
              /\ context_text[LawSectionLen + 1] = PREC_LABEL
              /\ \A i \in 1..Len(prec_docs) :
                    /\ context_text[LawSectionLen + 4 * i - 1] = ToString(i)
                    /\ context_text[LawSectionLen + 4 * i + 1] = prec_docs[i]

C12_Witness ==
    /\ pc = "generate"
    /\ law_docs = <<>>
    /\ Len(prec_docs) = 2
    /\ context_text[1] = PREC_LABEL



DetectRetrieved == det_pc \in {"measure", "returned"}

\* C13: whatever the two searches return, the context text of the scorer
\* holds the statute label and, after it, the precedent label; with no
\* statute found the statute section is the instruction to judge by
\* general legal knowledge, with no precedent found the precedent section
\* says so, and otherwise the sections hold the statutes found and the
\* best precedent.
C13_GroundingLanguage ==
    DetectRetrieved =>
        LET n == IF det_laws = <<>> THEN 1 ELSE 2 * Len(det_laws) - 1
        IN  /\ det_context[1] = LAW_LABEL
            /\ det_context[n + 4] = PREC_LABEL
            /\ Len(det_context) = n + 6
            /\ det_laws = <<>> => det_context[3] = NO_LAW_TEXT
            /\ det_laws # <<>> =>
                  \A i \in 1..Len(det_laws) : det_context[2 * i + 1] = det_laws[i]
            /\ det_context[n + 6] =
                  IF det_precs = <<>> THEN NO_PREC_TEXT ELSE det_precs[1]

C13_Witness ==
    /\ det_pc = "measure"
    /\ det_laws = <<>>
    /\ det_precs = <<>>
    /\ NO_LAW_TEXT \in Range(det_context)
    /\ PREC_LABEL \in Range(det_context)


\* The bands of the rubric a score lies in.
BandsOf(x) == {i \in DOMAIN rubric : rubric[i].low <= x /\ x <= rubric[i].high}
\* The score on the 0-10 scale that the evaluator expressed.
Expressed == IF det_scale = "unit" THEN det_raw * 10 ELSE det_raw

\* C14 as stated: on either convention the returned risk_score is within
\* 0-10 and in the rubric band of the score the evaluator expressed; a
\* score of the lowest band of the 0-10 scale is not reported higher.
C14_SameBand ==
    det_pc = "returned" =>
        /\ det_result.risk_score \in 0..MAX_RAW
        /\ BandsOf(Expressed) \subseteq BandsOf(det_result.risk_score)

\* C15 as stated: every score detect returns lies in exactly one band.
C15_Original ==
    det_pc = "returned" => Cardinality(BandsOf(det_result.risk_score)) = 1

\* C15 amended: the bands are ordered and pairwise disjoint, the first
\* starts at 0 and the last ends at 10, each band starts one whole point
\* above the end of the band before it; so a returned score that is a
\* whole number lies in exactly one band, and any other returned score
\* lies in one band or, between two bands, in none.
C15_WholeScoresBanded ==
    det_pc = "returned" =>
        /\ rubric[1].low = 0
        /\ rubric[Len(rubric)].high = MAX_RAW
        /\ \A i \in DOMAIN rubric : rubric[i].low < rubric[i].high
        /\ \A i \in 1..(Len(rubric) - 1) : rubric[i + 1].low = rubric[i].high + 1000
        /\ det_result.risk_score % 1000 = 0 =>
              Cardinality(BandsOf(det_result.risk_score)) = 1
        /\ Cardinality(BandsOf(det_result.risk_score)) <= 1
        /\ BandsOf(det_result.risk_score) = {} =>
              \E i \in 1..(Len(rubric) - 1) :
                 rubric[i].high < det_result.risk_score
                 /\ det_result.risk_score < rubric[i + 1].low

C15_Witness ==
    /\ det_pc = "returned"
    /\ det_result.risk_score = 2000
    /\ BandsOf(det_result.risk_score) = {1}



RunRetrievalDone == pc \in {"generate", "evaluate", "returned", "raised"}

\* C16 as stated: a run and a detect interleaved on the same object do not
\* affect each other; each retrieves the statutes it would retrieve with
\* no other invocation under way, also when no statute index was loaded
\* when both started.
C16_Independent ==
    /\ RunRetrievalDone => law_docs = run_alone
    /\ DetectRetrieved => det_laws = det_alone


Searched == mgr.op \in {"search_laws", "search_precedents"}
\* The index of the manager the last call was made on.
StoreOf == IF mgr.op = "search_laws" THEN law_vs ELSE prec_vs

\* C17 as stated: neither search ever raises; with no index loaded after
\* the attempt to load or build one it returns the empty list, and
\* otherwise the first k documents of the index in rank order, or all of
\* them when there are fewer.
C17_SearchNeverRaises ==
    Searched =>
        /\ ~mgr.raised
        /\ ~StoreOf.loaded => mgr.docs = <<>>
        /\ StoreOf.loaded =>
              /\ Len(mgr.docs) = Min(mgr.k, Len(StoreOf.docs))
              /\ \A i \in DOMAIN mgr.docs : mgr.docs[i] = StoreOf.docs[i]


\* The prompt of an attempt without its revision section.
BasePrompt == << "system_role", "[reference]" >> \o context_text \o << "[question]", "query" >>

\* C18: the first generation call has no revision section; every later
\* one has the same query and context followed by one revision section
\* made of the score and the reason of the evaluation just before it, and
\* of nothing from earlier attempts.
C18_FeedbackFromPrevious ==
    \A i \in CallsOf("generate") :
        IF i = 3
        THEN calls[i].prompt = BasePrompt
        ELSE /\ calls[i - 1].op = "evaluate"
             /\ Len(calls[i].prompt) = Len(BasePrompt) + 6
             /\ SubSeq(calls[i].prompt, 1, Len(BasePrompt)) = BasePrompt
             /\ calls[i].prompt[Len(BasePrompt) + 1] = "[revise]"
             /\ calls[i].prompt[Len(BasePrompt) + 3] = ScoreText(calls[i - 1].score)
             /\ calls[i].prompt[Len(BasePrompt) + 5] = calls[i - 1].reason

C18_Witness ==
    /\ GenCalls = 3
    /\ calls[4].score # calls[6].score
    /\ calls[4].reason # calls[6].reason
    /\ calls[7].prompt[Len(BasePrompt) + 5] = calls[6].reason

\* C19: the calls of one invocation are in this order: the statute
\* search, the precedent search, then generation and evaluation in turn,
\* generation first; an evaluation is given the answer of the generation
\* just before it; after an evaluation whose score reached the target
\* there is no further call.
C19_CallOrder ==
    /\ pc \in {"generate", "evaluate"} => Retrieved
    /\ calls # <<>> =>
          /\ Retrieved
          /\ calls[1].op = "search_laws"
          /\ calls[2].op = "search_precedents"
    /\ \A i \in DOMAIN calls : i >= 3 =>
          /\ calls[i].op = (IF i % 2 = 1 THEN "generate" ELSE "evaluate")
          /\ calls[i].op = "evaluate" =>
                LET answer == calls[i - 1].text
                    n == Len(calls[i].prompt)
                IN  /\ calls[i - 1].ok
                    /\ calls[i].text = answer
                    /\ SubSeq(calls[i].prompt, n - Len(answer) + 1, n) = answer
          /\ (calls[i].op = "evaluate" /\ AtLeast75(calls[i].score)) => i = Len(calls)

C19_Witness ==
    /\ pc = "returned"
    /\ Len(calls) = 6
    /\ AtLeast75(calls[6].score)
    /\ calls[5].text # calls[3].text

\* C20: in a result with sources the answer starts with the banner
\* exactly when the returned score is below the target; the score is
\* that of the last evaluation made, the banner shows that score, and the
\* answer under the banner is the text of the last generation made.
C20_BannerMatchesScore ==
    (pc = "returned" /\ result.sources # <<>>) =>
        LET n == Len(calls)
            banner == << WARN_OPEN, ScoreText(result.score), WARN_CLOSE, "\n" >>
        IN  /\ calls[n].op = "evaluate"
            /\ calls[n - 1].op = "generate"
            /\ result.score = calls[n].score
            /\ (result.answer[1] = WARN_OPEN) <=> Below75(result.score)
            /\ result.answer =
                  IF Below75(result.score) THEN banner \o calls[n - 1].text
                  ELSE calls[n - 1].text

C20_Witness ==
    /\ pc = "returned"
    /\ result.sources # <<>>
    /\ GenCalls = 3
    /\ Below75(result.score)
    /\ result.answer[1] = WARN_OPEN
    /\ calls[5].text # calls[7].text


\* C21 as stated: in every assessment detect returns, is_toxic is true
\* exactly when the returned risk_score, the corrected score rounded to one
\* decimal, is >= 4.0; none reports 4.0 with is_toxic false.
C21_FieldsConsistent ==
    det_pc = "returned" =>
        (det_result.is_toxic <=> det_result.risk_score >= TOXIC_THRESHOLD)


\* C21 amended: is_toxic is decided on the corrected score before it is
\* rounded, and risk_score is that score rounded to one decimal.  So a
\* toxic assessment reports at least 4.0 and one that is not toxic at most
\* 4.0, and an assessment reporting 4.0 with is_toxic false is returned
\* exactly for the corrected scores from 3.95 up to, not including, 4.0.
C21_DecisionBeforeRounding ==
    det_pc = "returned" =>
        LET shown == det_result.risk_score
        IN  /\ det_result.is_toxic <=> det_norm >= TOXIC_THRESHOLD
            /\ shown % 100 = 0
            /\ shown - det_norm <= 50
            /\ det_norm - shown <= 50
            /\ det_result.is_toxic => shown >= TOXIC_THRESHOLD
            /\ ~det_result.is_toxic => shown <= TOXIC_THRESHOLD
            /\ (~det_result.is_toxic /\ shown = TOXIC_THRESHOLD)
                  => det_norm \in (TOXIC_THRESHOLD - 50)..(TOXIC_THRESHOLD - 1)
            /\ det_norm \in (TOXIC_THRESHOLD - 49)..(TOXIC_THRESHOLD - 1)
                  => (~det_result.is_toxic /\ shown = TOXIC_THRESHOLD)

C21_Witness ==
    /\ det_pc = "returned"
    /\ det_norm = 3960
    /\ ~det_result.is_toxic
    /\ det_result.risk_score = TOXIC_THRESHOLD


\* C22: on either manager, a step taken while an index is loaded leaves
\* that index as it is, whether the step is initialize_database or a
\* search; and a search calls initialize_database exactly when it finds no
\* index loaded.
C22_LoadedIndexKept ==
    [][ /\ law_vs.loaded => law_vs' = law_vs
        /\ prec_vs.loaded => prec_vs' = prec_vs
        /\ mgr'.op = "search_laws" => (mgr'.initialized <=> ~law_vs.loaded)
        /\ mgr'.op = "search_precedents" => (mgr'.initialized <=> ~prec_vs.loaded)
      ]_vars

C22_Witness ==
    /\ mgr.op = "search_laws"
    /\ ~mgr.initialized
    /\ law_vs = LawIndex(2)
    /\ prec_vs.loaded
    /\ mgr.docs = law_vs.docs

====
